---- MODULE Spec2Model ----
(***************************************************************************)
(* TopGames product catalogue API (src/main.py): the FastAPI handlers      *)
(* list_products, create_product, featured_products, get_categories and    *)
(* test_database over one MongoDB collection "product".                    *)
(*                                                                         *)
(* Text is a sequence of one-character strings, so that the regular        *)
(* expression search of the list filter can be computed.  ObjectId and     *)
(* datetime values are the records [oid |-> n] and [dt |-> n]; Python's    *)
(* str(x) is the record [str |-> x].                                       *)
(***************************************************************************)
EXTENDS Integers, Sequences, FiniteSets

VARIABLES
    db,        \* the module-level store handle: "null" or "connected"
    env,       \* which of DATABASE_URL / DATABASE_NAME are set
    products,  \* the "product" collection, in the store's natural order
    nextId,    \* the store's generator of fresh ObjectId values
    clock,     \* the server's wall clock (datetime.now)
    pending,   \* a featured_products request between its two queries
    response   \* the response a handler has produced, until it is sent

vars == <<db, env, products, nextId, clock, pending, response>>

-----------------------------------------------------------------------------
(* Bounds of the model *)

MaxProducts == 2     \* create_product calls that succeed in one behaviour
MaxClock == 1        \* ticks of the wall clock in one behaviour
SeedSize == 13       \* records of the non-empty initial collection

(* Program constants *)

ListLimitDefault == 12
ListLimitMin == 1
ListLimitMax == 50
FeaturedLimitDefault == 8
FeaturedLimitMin == 1
FeaturedLimitMax == 12
CollectionsShown == 10

-----------------------------------------------------------------------------
(* Values *)

ObjectId(n) == [oid |-> n]
datetime(n) == [dt |-> n]
str(x) == [str |-> x]

None == [given |-> FALSE, val |-> <<>>]
Some(v) == [given |-> TRUE, val |-> v]
NoInt == [given |-> FALSE, val |-> 0]
NoCategory == [given |-> FALSE, val |-> ""]

FEATURED == <<"f", "e", "a", "t", "u", "r", "e", "d">>

Min(a, b) == IF a <= b THEN a ELSE b

Take(s, n) == SubSeq(s, 1, Min(n, Len(s)))

-----------------------------------------------------------------------------
(* Response shaping *)

(* A shaping that adds "id" and leaves "_id" in the record *)
product_to_public_keep_id(doc) ==
    [k \in DOMAIN doc \cup {"id"} |->
        IF k = "id" THEN str(doc["_id"])
        ELSE IF k \in {"created_at", "updated_at"} THEN str(doc[k])
        ELSE doc[k]]

product_to_public(doc) ==
    LET d1 == IF "_id" \in DOMAIN doc
              THEN [k \in (DOMAIN doc \ {"_id"}) \cup {"id"} |->
                        IF k = "id" THEN str(doc["_id"]) ELSE doc[k]]
              ELSE doc
        d2 == IF "created_at" \in DOMAIN d1
              THEN [k \in DOMAIN d1 |->
                        IF k = "created_at" THEN str(d1[k]) ELSE d1[k]]
              ELSE d1
        d3 == IF "updated_at" \in DOMAIN d2
              THEN [k \in DOMAIN d2 |->
                        IF k = "updated_at" THEN str(d2[k]) ELSE d2[k]]
              ELSE d2
    IN d3

Shape(docs) == [i \in DOMAIN docs |-> product_to_public(docs[i])]

-----------------------------------------------------------------------------
(* Text matching, as the store evaluates {"$regex": q, "$options": "i"}.   *)
(* The texts of the model are written over letters and the character ".",  *)
(* the one regular-expression metacharacter in them: as a pattern it       *)
(* matches any character, every other character matches itself, and the    *)
(* option "i" makes the comparison ignore case.                            *)

Lower(c) ==
    CASE c = "A" -> "a"
      [] c = "B" -> "b"
      [] c = "S" -> "s"
      [] OTHER -> c

RegexCharMatch(p, c) == p = "." \/ Lower(p) = Lower(c)

RegexSearch(q, text) ==
    \E i \in 1..(Len(text) - Len(q) + 1) :
        \A j \in 1..Len(q) : RegexCharMatch(q[j], text[i + j - 1])

(* The filter document list_products builds: src/main.py lines 100-108 *)

(* A filter whose "$or" entry replaces the category entry *)
BuildFilters_or_only(category, q) ==
    [has_category |-> category.given /\ category.val # ""
                      /\ ~(q.given /\ Len(q.val) > 0),
     category     |-> category.val,
     has_or       |-> q.given /\ Len(q.val) > 0,
     regex        |-> q.val]

BuildFilters(category, q) ==
    [has_category |-> category.given /\ category.val # "",
     category     |-> category.val,
     has_or       |-> q.given /\ Len(q.val) > 0,
     regex        |-> q.val]

OrClause(regex, doc) ==
    \/ RegexSearch(regex, doc["title"])
    \/ RegexSearch(regex, doc["description"])
    \/ \E t \in DOMAIN doc["tags"] : RegexSearch(regex, doc["tags"][t])

MatchesFilters(filters, doc) ==
    /\ filters.has_category => doc["category"] = filters.category
    /\ filters.has_or => OrClause(filters.regex, doc)

HasFeaturedTag(doc) == \E t \in DOMAIN doc["tags"] : doc["tags"][t] = FEATURED

-----------------------------------------------------------------------------
(* Data access layer (database.py, described in section 4.1 of the spec)   *)

get_documents(store, filters, limit) ==
    LET Test(d) == MatchesFilters(filters, d)
    IN Take(SelectSeq(store, Test), limit)

create_document(store, id, now, payload) ==
    Append(store,
           [k \in DOMAIN payload \cup {"_id", "created_at"} |->
               IF k = "_id" THEN ObjectId(id)
               ELSE IF k = "created_at" THEN datetime(now)
               ELSE payload[k]])

(* find({"tags": "featured"}).limit(n): natural order *)
FindFeatured(store, n) == Take(SelectSeq(store, HasFeaturedTag), n)

(* find({}).sort("created_at", -1).limit(n): every order the store may     *)
(* return; records with equal created_at come in no particular order.      *)
RECURSIVE SortDescFrom(_, _, _)
SortDescFrom(store, S, n) ==
    IF n <= 0 \/ S = {} THEN {<<>>}
    ELSE LET newest == {i \in S : \A j \in S :
                           store[j]["created_at"].dt <= store[i]["created_at"].dt}
         IN UNION {{<<store[i]>> \o t : t \in SortDescFrom(store, S \ {i}, n - 1)}
                   : i \in newest}

FindRecent(store, n) == SortDescFrom(store, DOMAIN store, n)

-----------------------------------------------------------------------------
(* Requests and responses *)

Req(category, q, limit) == [category |-> category, q |-> q, limit |-> limit]

Resp(handler, req, status, detail, body, reads) ==
    [handler |-> handler, req |-> req, status |-> status, detail |-> detail,
     body |-> body, reads |-> reads]

NoResponse == Resp("none", Req(None, None, NoInt), 0, "", <<>>, <<>>)

NoPending == [active |-> FALSE, limit |-> 0, found |-> <<>>, snap |-> <<>>]

(* Query(default, ge=lo, le=hi): the value the handler receives *)
QueryInt(limit, default) == IF limit.given THEN limit.val ELSE default

(* A Query without ge/le: every integer is let through *)
QueryValid_unchecked(limit, lo, hi) == TRUE

QueryValid(limit, lo, hi) == limit.given => (lo <= limit.val /\ limit.val <= hi)

(* A guard that never fires *)
DbIsNone_never(dbh) == FALSE

(* "db is None", the guard that opens the three store handlers *)
DbIsNone(dbh) == dbh = "null"

-----------------------------------------------------------------------------
(* Handlers.  ok is whether the store answers the call (a connected store  *)
(* may still fail a query; the driver's exception becomes HTTP 500).       *)

list_products(dbh, store, category, q, limit, ok) ==
    LET req == Req(category, q, limit)
        n == QueryInt(limit, ListLimitDefault)
    IN IF ~QueryValid(limit, ListLimitMin, ListLimitMax)
       THEN Resp("list_products", req, 422, "validation", <<>>, <<>>)
       ELSE IF DbIsNone(dbh)
       THEN Resp("list_products", req, 200, "", <<>>, <<>>)
       ELSE IF ~ok
       THEN Resp("list_products", req, 500, "store error", <<>>, <<store>>)
       ELSE Resp("list_products", req, 200, "",
                 Shape(get_documents(store, BuildFilters(category, q), n)),
                 <<store>>)

(* create_product without its guard: the insert is attempted at once *)
create_product_unguarded(dbh, store, id, now, payload, ok) ==
    IF ~ok
    THEN [response |-> Resp("create_product", payload, 500, "store error",
                            <<>>, <<>>),
          store |-> store]
    ELSE [response |-> Resp("create_product", payload, 201, "",
                            [id |-> str(ObjectId(id))], <<>>),
          store |-> create_document(store, id, now, payload)]

(* create_product that inserts the record a second time *)
create_product_twice(dbh, store, id, now, payload, ok) ==
    IF DbIsNone(dbh) \/ ~ok
    THEN [response |-> Resp("create_product", payload, 500, "error", <<>>, <<>>),
          store |-> store]
    ELSE [response |-> Resp("create_product", payload, 201, "",
                            [id |-> str(ObjectId(id))], <<>>),
          store |-> create_document(create_document(store, id, now, payload),
                                    id, now, payload)]

(* create_product that writes the record over the newest stored one *)
create_product_replace(dbh, store, id, now, payload, ok) ==
    IF DbIsNone(dbh) \/ ~ok
    THEN [response |-> Resp("create_product", payload, 500, "error", <<>>, <<>>),
          store |-> store]
    ELSE [response |-> Resp("create_product", payload, 201, "",
                            [id |-> str(ObjectId(id))], <<>>),
          store |-> create_document(SubSeq(store, 1, Len(store) - 1),
                                    id, now, payload)]

create_product(dbh, store, id, now, payload, ok) ==
    IF DbIsNone(dbh)
    THEN [response |-> Resp("create_product", payload, 500,
                            "Database non disponibile", <<>>, <<>>),
          store |-> store]
    ELSE IF ~ok
    THEN [response |-> Resp("create_product", payload, 500, "store error",
                            <<>>, <<>>),
          store |-> store]
    ELSE [response |-> Resp("create_product", payload, 201, "",
                            [id |-> str(ObjectId(id))], <<>>),
          store |-> create_document(store, id, now, payload)]

(* featured_products up to and including its first query, lines 123-129.   *)
(* A request that needs the fallback query stays pending.                  *)
featured_first(dbh, store, limit, ok) ==
    LET req == Req(None, None, limit)
        n == QueryInt(limit, FeaturedLimitDefault)
        found == FindFeatured(store, n)
    IN IF ~QueryValid(limit, FeaturedLimitMin, FeaturedLimitMax)
       THEN [response |-> Resp("featured_products", req, 422, "validation",
                               <<>>, <<>>),
             pending |-> NoPending]
       ELSE IF DbIsNone(dbh)
       THEN [response |-> Resp("featured_products", req, 200, "", <<>>, <<>>),
             pending |-> NoPending]
       ELSE IF ~ok
       THEN [response |-> Resp("featured_products", req, 500, "store error",
                               <<>>, <<store>>),
             pending |-> NoPending]
       ELSE IF Len(found) < n
       THEN [response |-> NoResponse,
             pending |-> [active |-> TRUE, limit |-> limit, found |-> found,
                          snap |-> store]]
       ELSE [response |-> Resp("featured_products", req, 200, "",
                               Shape(Take(found, n)), <<store>>),
             pending |-> NoPending]

(* The number of records the fallback query asks for, line 131 *)
FallbackCount(pend) ==
    QueryInt(pend.limit, FeaturedLimitDefault) - Len(pend.found)

(* featured_products that puts the fallback records first *)
featured_second_swapped(store, pend, more, ok) ==
    LET req == Req(None, None, pend.limit)
        n == QueryInt(pend.limit, FeaturedLimitDefault)
    IN IF ~ok
       THEN Resp("featured_products", req, 500, "store error", <<>>,
                 <<pend.snap, store>>)
       ELSE Resp("featured_products", req, 200, "",
                 Shape(Take(more \o pend.found, n)), <<pend.snap, store>>)

(* featured_products that drops from the fallback records those the first  *)
(* query returned                                                          *)
featured_second_dedup(store, pend, more, ok) ==
    LET req == Req(None, None, pend.limit)
        n == QueryInt(pend.limit, FeaturedLimitDefault)
        New(d) == \A i \in DOMAIN pend.found : pend.found[i]["_id"] # d["_id"]
    IN IF ~ok
       THEN Resp("featured_products", req, 500, "store error", <<>>,
                 <<pend.snap, store>>)
       ELSE Resp("featured_products", req, 200, "",
                 Shape(Take(pend.found \o SelectSeq(more, New), n)),
                 <<pend.snap, store>>)

(* featured_products from its fallback query on, lines 131-133; more is    *)
(* what the fallback query returned.                                       *)
featured_second(store, pend, more, ok) ==
    LET req == Req(None, None, pend.limit)
        n == QueryInt(pend.limit, FeaturedLimitDefault)
    IN IF ~ok
       THEN Resp("featured_products", req, 500, "store error", <<>>,
                 <<pend.snap, store>>)
       ELSE Resp("featured_products", req, 200, "",
                 Shape(Take(pend.found \o more, n)), <<pend.snap, store>>)

Categories ==
    << [key |-> "carte", label |-> "Carte Collezionabili",
        image |-> "https://images.unsplash.com/photo-1593113598332-cd288d649433?q=80&w=1600&auto=format&fit=crop"],
       [key |-> "gadget", label |-> "Gadget",
        image |-> "https://images.unsplash.com/photo-1526657782461-9fe13402a841?q=80&w=1600&auto=format&fit=crop"],
       [key |-> "videogiochi", label |-> "Videogiochi",
        image |-> "https://images.unsplash.com/photo-1542751371-adc38448a05e?q=80&w=1600&auto=format&fit=crop"] >>

get_categories == Resp("get_categories", Req(None, None, NoInt), 200, "",
                       Categories, <<>>)

test_database(dbh, environ, store, ok) ==
    LET names == IF Len(store) > 0 THEN <<"product">> ELSE <<>>
        body == [backend |-> "Running",
                 database |-> IF dbh = "null"
                              THEN "Available but not initialized"
                              ELSE IF ok THEN "Connected & Working"
                              ELSE "Connected but Error",
                 database_url |-> IF environ.url THEN "Set" ELSE "Not Set",
                 database_name |-> IF environ.name THEN "Set" ELSE "Not Set",
                 connection_status |-> IF dbh = "null" THEN "Not Connected"
                                       ELSE "Connected",
                 collections |-> IF dbh # "null" /\ ok
                                 THEN Take(names, CollectionsShown) ELSE <<>>]
    IN Resp("test_database", Req(None, None, NoInt), 200, "", body,
            IF dbh = "null" THEN <<>> ELSE <<store>>)

-----------------------------------------------------------------------------
(* Inputs *)

Payloads ==
    { [title |-> <<"A", "b">>, description |-> <<"c">>, category |-> "carte",
       tags |-> <<FEATURED>>, price |-> 10],
      [title |-> <<"b", ".">>, description |-> <<"a">>, category |-> "gadget",
       tags |-> << <<"B", "a">> >>, price |-> 20],
      [title |-> <<"s">>, description |-> <<>>, category |-> "carte",
       tags |-> <<>>, price |-> 30] }

CategoryInputs == {NoCategory, Some(""), Some("carte"), Some("gadget")}

QInputs == {None, Some(<<>>), Some(<<"a", "b">>), Some(<<"B", ".">>),
            Some(<<".">>), Some(<<"d">>)}

ListLimitInputs ==
    {NoInt} \cup {Some(n) : n \in {ListLimitMin - 1, ListLimitMin, 2,
                                  ListLimitMax, ListLimitMax + 1}}

FeaturedLimitInputs ==
    {NoInt} \cup {Some(n) : n \in {FeaturedLimitMin - 1, FeaturedLimitMin, 3,
                                  FeaturedLimitMax, FeaturedLimitMax + 1}}

(* A collection that exists before the process starts: records written by  *)
(* earlier runs, two of them tagged featured, with distinct created_at.    *)
SeedDoc(i) ==
    [k \in {"_id", "title", "description", "category", "tags", "price",
            "created_at"} \cup (IF i % 2 = 0 THEN {"updated_at"} ELSE {}) |->
        CASE k = "_id" -> ObjectId(i)
          [] k = "title" -> IF i % 3 = 0 THEN <<"A", "b">> ELSE <<"S">>
          [] k = "description" -> <<"x">>
          [] k = "category" -> IF i % 2 = 0 THEN "carte" ELSE "videogiochi"
          [] k = "tags" -> IF i \in {2, 5} THEN <<FEATURED>> ELSE <<>>
          [] k = "price" -> i
          [] k = "created_at" -> datetime((i * 5) % SeedSize)
          [] k = "updated_at" -> datetime(SeedSize)]

SeedStore == [i \in 1..SeedSize |-> SeedDoc(i)]

ClockStart == SeedSize - 1

-----------------------------------------------------------------------------
(* The state machine *)

Init ==
    /\ db \in {"null", "connected"}
    /\ env \in [url : BOOLEAN, name : BOOLEAN]
    /\ db = "connected" => env.url
    /\ products \in {<<>>, SeedStore}
    /\ nextId = SeedSize + 1
    /\ clock = ClockStart
    /\ pending = NoPending
    /\ response = NoResponse

(* The model follows one response at a time: a handler runs once the       *)
(* response before it has been sent.  A pending featured_products request  *)
(* is passed only by create_product calls and clock ticks, the steps that  *)
(* can change what its fallback query returns.                             *)

Tick ==
    /\ response = NoResponse
    /\ clock < ClockStart + MaxClock
    /\ clock' = clock + 1
    /\ UNCHANGED <<db, env, products, nextId, pending, response>>

ListProducts ==
    /\ response = NoResponse
    /\ ~pending.active
    /\ \E category \in CategoryInputs, q \in QInputs,
          limit \in ListLimitInputs, ok \in BOOLEAN :
          response' = list_products(db, products, category, q, limit, ok)
    /\ UNCHANGED <<db, env, products, nextId, clock, pending>>

CreateProduct ==
    /\ response = NoResponse
    /\ nextId <= SeedSize + MaxProducts
    /\ \E payload \in Payloads, ok \in BOOLEAN :
          LET r == create_product(db, products, nextId, clock, payload, ok)
          IN /\ response' = r.response
             /\ products' = r.store
             /\ nextId' = IF r.response.status = 201 THEN nextId + 1 ELSE nextId
    /\ UNCHANGED <<db, env, clock, pending>>

FeaturedFirst ==
    /\ response = NoResponse
    /\ ~pending.active
    /\ \E limit \in FeaturedLimitInputs, ok \in BOOLEAN :
          LET r == featured_first(db, products, limit, ok)
          IN /\ response' = r.response
             /\ pending' = r.pending
    /\ UNCHANGED <<db, env, products, nextId, clock>>

FeaturedSecond ==
    /\ response = NoResponse
    /\ pending.active
    /\ \E more \in FindRecent(products, FallbackCount(pending)), ok \in BOOLEAN :
          response' = featured_second(products, pending, more, ok)
    /\ pending' = NoPending
    /\ UNCHANGED <<db, env, products, nextId, clock>>

GetCategories ==
    /\ response = NoResponse
    /\ ~pending.active
    /\ response' = get_categories
    /\ UNCHANGED <<db, env, products, nextId, clock, pending>>

TestDatabase ==
    /\ response = NoResponse
    /\ ~pending.active
    /\ \E ok \in BOOLEAN : response' = test_database(db, env, products, ok)
    /\ UNCHANGED <<db, env, products, nextId, clock, pending>>

Send ==
    /\ response # NoResponse
    /\ response' = NoResponse
    /\ UNCHANGED <<db, env, products, nextId, clock, pending>>

Next ==
    \/ Tick
    \/ Send
    \/ ListProducts
    \/ CreateProduct
    \/ FeaturedFirst
    \/ FeaturedSecond
    \/ GetCategories
    \/ TestDatabase

Spec == Init /\ [][Next]_vars

-----------------------------------------------------------------------------
(* Vocabulary of the properties *)

IsList == response.handler = "list_products"
IsFeatured == response.handler = "featured_products"
IsCreate == response.handler = "create_product"

(* The collection as the request's first query saw it *)
Seen == response.reads[1]

(* No write fell between the queries of the request *)
Quiet == /\ Len(response.reads) >= 1
         /\ \A i \in DOMAIN response.reads : response.reads[i] = Seen

CreatedAt(doc) == doc["created_at"].dt
ShownCreatedAt(rec) == rec["created_at"].str.dt

FeaturedOf(store) == SelectSeq(store, HasFeaturedTag)

(* How often the record with identifier oid occurs in the response *)
Occurrences(oid) ==
    Cardinality({i \in DOMAIN response.body : response.body[i]["id"] = str(oid)})

FeaturedN == IF response.req.limit.given THEN response.req.limit.val ELSE 8

FeaturedCase ==
    /\ IsFeatured /\ response.status = 200 /\ Quiet
    /\ Len(FeaturedOf(Seen)) < FeaturedN
    /\ FeaturedN \in 1..12

(* C1: a featured_products request for limit items in 1..12, answered from *)
(* one store content with f < limit featured-tagged products and at least  *)
(* limit - f products overall, returns exactly limit items: the f featured *)
(* products first, in natural order, then the limit - f most recently      *)
(* created products, created_at descending.                                *)
C1_FeaturedThenRecent ==
    (FeaturedCase /\ Len(Seen) >= FeaturedN - Len(FeaturedOf(Seen))) =>
        LET feat == FeaturedOf(Seen)
            f == Len(feat)
            body == response.body
            tail == (f + 1)..FeaturedN
        IN /\ Len(body) = FeaturedN
           /\ \A i \in 1..f : body[i]["id"] = str(feat[i]["_id"])
           /\ \A i \in tail : \E j \in DOMAIN Seen :
                 /\ body[i]["id"] = str(Seen[j]["_id"])
                 /\ body[i]["created_at"] = str(Seen[j]["created_at"])
           /\ \A i \in tail, k \in tail :
                 i < k => /\ body[i]["id"] # body[k]["id"]
                          /\ ShownCreatedAt(body[i]) >= ShownCreatedAt(body[k])
           /\ \A j \in DOMAIN Seen :
                 (\A i \in tail : body[i]["id"] # str(Seen[j]["_id"])) =>
                 \A i \in tail : CreatedAt(Seen[j]) <= ShownCreatedAt(body[i])

C1_Witness ==
    /\ FeaturedCase
    /\ ~response.req.limit.given
    /\ Len(FeaturedOf(Seen)) = 3
    /\ Len(Seen) >= 8
    /\ Len(response.body) = 8

(* C9: featured_products does not remove from its fallback result the      *)
(* products its first query returned: answered from one store content with *)
(* fewer than limit featured products, every featured product that is      *)
(* among the limit - f most recent of the collection is in the response    *)
(* twice.                                                                  *)
C9_NoDeduplication ==
    FeaturedCase =>
        LET feat == FeaturedOf(Seen)
            room == FeaturedN - Len(feat)
        IN \A j \in DOMAIN Seen :
              ( /\ HasFeaturedTag(Seen[j])
                /\ Cardinality({k \in DOMAIN Seen \ {j} :
                                   CreatedAt(Seen[k]) >= CreatedAt(Seen[j])}) < room )
              => Occurrences(Seen[j]["_id"]) = 2

C9_Witness ==
    /\ FeaturedCase
    /\ \E j \in DOMAIN Seen : Occurrences(Seen[j]["_id"]) = 2

(* The limit of the request is one the boundary lets through *)
LimitInRange ==
    response.req.limit.given =>
        /\ IsList => response.req.limit.val \in 1..50
        /\ IsFeatured => response.req.limit.val \in 1..12

(* C2: with the store handle null, list_products and featured_products     *)
(* answer every request that reaches them (any category, q and limit in    *)
(* range) with the empty sequence: no error and no store query.            *)
C2_ReadsDegradeToEmpty ==
    (db = "null" /\ (IsList \/ IsFeatured) /\ LimitInRange) =>
        /\ response.status = 200
        /\ response.body = <<>>
        /\ response.reads = <<>>

C2_Witness ==
    /\ db = "null" /\ IsList /\ response.status = 200
    /\ response.req.category.given /\ response.req.q.given
    /\ response.req.limit.given
    /\ Len(products) > 0

(* C3: with the store handle null, create_product answers HTTP 500 with no *)
(* identifier and the product collection is after the call what it was     *)
(* before.                                                                 *)
C3_CreateFailsWithoutStore ==
    [][(db = "null" /\ response'.handler = "create_product") =>
           /\ response'.status = 500
           /\ response'.body = <<>>
           /\ products' = products]_vars

C3_Witness ==
    /\ db = "null" /\ IsCreate /\ response.status = 500
    /\ response.detail = "Database non disponibile"
    /\ Len(products) > 0

IdsDistinct ==
    \A i \in DOMAIN products, j \in DOMAIN products :
        i # j => products[i]["_id"] # products[j]["_id"]

(* C4: with the store available, a create_product call that succeeds adds  *)
(* exactly one record and answers 201 with only that record's identifier,  *)
(* which the store generated (the payload carries none); a call that fails *)
(* adds nothing; the identifiers in the collection are always pairwise     *)
(* distinct.                                                               *)
C4_CreateAssignsFreshId ==
    /\ []IdsDistinct
    /\ [][response'.handler = "create_product" =>
             IF response'.status = 201
             THEN /\ db = "connected"
                  /\ Len(products') = Len(products) + 1
                  /\ SubSeq(products', 1, Len(products)) = products
                  /\ response'.body = [id |-> str(products'[Len(products')]["_id"])]
                  /\ products'[Len(products')]["_id"] = ObjectId(nextId)
                  /\ "_id" \notin DOMAIN response'.req
                  /\ \A i \in DOMAIN products :
                        products[i]["_id"] # ObjectId(nextId)
             ELSE products' = products]_vars

C4_Witness ==
    /\ IsCreate /\ response.status = 201
    /\ \E i \in DOMAIN products, j \in DOMAIN products :
          /\ i < j
          /\ products[i]["_id"].oid > SeedSize
          /\ response.body["id"] = str(products[j]["_id"])

ListCase == IsList /\ response.status = 200 /\ db = "connected"

ListN == IF response.req.limit.given THEN response.req.limit.val ELSE 12

EveryReturned(P(_)) == \A i \in DOMAIN response.body : P(response.body[i])

(* The original statement of C5: any category that is given, the empty     *)
(* string too, is matched exactly by every returned product.               *)
C5_Original ==
    ListCase =>
        LET cat == response.req.category
            q == response.req.q
            CatOk(r) == r["category"] = cat.val
            BothOk(r) == CatOk(r) /\ OrClause(q.val, r)
        IN /\ cat.given => EveryReturned(CatOk)
           /\ (cat.given /\ q.given) => EveryReturned(BothOk)
           /\ Len(response.body) <= ListN

(* C5: when a non-empty category is given, every product list_products     *)
(* returns has exactly that category, and when q is given too every        *)
(* returned product satisfies the category condition and the q condition   *)
(* of the filter; the result holds at most limit products.                 *)
C5_CategoryAndQ ==
    ListCase =>
        LET cat == response.req.category
            q == response.req.q
            CatOk(r) == r["category"] = cat.val
            BothOk(r) == CatOk(r) /\ OrClause(q.val, r)
        IN /\ (cat.given /\ cat.val # "") => EveryReturned(CatOk)
           /\ (cat.given /\ cat.val # "" /\ q.given) => EveryReturned(BothOk)
           /\ Len(response.body) <= ListN

C5_Witness ==
    /\ ListCase
    /\ response.req.category = Some("carte")
    /\ response.req.q = Some(<<"a", "b">>)
    /\ Len(response.body) = 2
    /\ Len(response.body) = ListN
    /\ \E j \in DOMAIN Seen : /\ Seen[j]["category"] # "carte"
                              /\ OrClause(<<"a", "b">>, Seen[j])

(* q occurs in text as a substring, letter case ignored *)
Substring(q, text) ==
    \E i \in 1..(Len(text) - Len(q) + 1) :
        \A j \in 1..Len(q) : Lower(q[j]) = Lower(text[i + j - 1])

SubstringAnywhere(q, doc) ==
    \/ Substring(q, doc["title"])
    \/ Substring(q, doc["description"])
    \/ \E t \in DOMAIN doc["tags"] : Substring(q, doc["tags"][t])

(* C6: for every q given to list_products, a product (that passes the      *)
(* category condition) is eligible for the result if and only if q is a    *)
(* case-insensitive substring of its title, of its description or of one   *)
(* of its tags: what is returned is eligible, and a result shorter than    *)
(* limit holds every eligible product.                                     *)
C6_Original ==
    (ListCase /\ response.req.q.given) =>
        LET cat == response.req.category
            q == response.req.q.val
            CatOk(d) == (cat.given /\ cat.val # "") => d["category"] = cat.val
            Returned(d) == Occurrences(d["_id"]) > 0
        IN \A j \in DOMAIN Seen :
              CatOk(Seen[j]) =>
                 /\ Returned(Seen[j]) => SubstringAnywhere(q, Seen[j])
                 /\ (Len(response.body) < ListN /\ SubstringAnywhere(q, Seen[j]))
                        => Returned(Seen[j])

(* C7: a list_products request whose limit is an integer outside [1, 50]   *)
(* is rejected at the boundary: a validation error, no product list and no *)
(* store query, and no answer computed with a clamped limit; a request     *)
(* without limit is answered with at most 12 products, and with exactly 12 *)
(* when 12 or more match.                                                  *)
C7_LimitRejectedNotClamped ==
    IsList =>
        LET lim == response.req.limit
            Hit(j) == MatchesFilters(BuildFilters(response.req.category,
                                                  response.req.q), Seen[j])
        IN /\ (lim.given /\ lim.val \notin 1..50) =>
                 /\ response.status = 422
                 /\ response.body = <<>>
                 /\ response.reads = <<>>
           /\ (lim.given /\ lim.val \in 1..50) => response.status # 422
           /\ (~lim.given /\ ListCase) =>
                 LET hits == Cardinality({j \in DOMAIN Seen : Hit(j)})
                 IN Len(response.body) = IF hits < 12 THEN hits ELSE 12

C7_Witness ==
    /\ IsList /\ db = "connected" /\ Len(products) > 0
    /\ response.req.limit = Some(51)
    /\ response.status = 422

C7_DefaultWitness ==
    /\ ListCase /\ ~response.req.limit.given
    /\ Len(Seen) > 12 /\ Len(response.body) = 12

(* C8: every record of a list_products or featured_products response is a  *)
(* stored record with "_id" removed and "id" holding its string form,      *)
(* created_at and updated_at, where present, in string form, and every     *)
(* other field as stored.                                                  *)
C8_ShapedRecords ==
    ((IsList \/ IsFeatured) /\ response.status = 200) =>
        \A i \in DOMAIN response.body :
            LET r == response.body[i]
            IN /\ "_id" \notin DOMAIN r
               /\ "id" \in DOMAIN r
               /\ \E k \in DOMAIN response.reads :
                  \E j \in DOMAIN response.reads[k] :
                     LET d == response.reads[k][j]
                     IN /\ r["id"] = str(d["_id"])
                        /\ DOMAIN r = (DOMAIN d \ {"_id"}) \cup {"id"}
                        /\ \A key \in DOMAIN d \ {"_id"} :
                              r[key] = IF key \in {"created_at", "updated_at"}
                                       THEN str(d[key]) ELSE d[key]

C8_Witness ==
    /\ IsFeatured /\ response.status = 200
    /\ \E i \in DOMAIN response.body : "updated_at" \in DOMAIN response.body[i]
    /\ \E i \in DOMAIN response.body : "updated_at" \notin DOMAIN response.body[i]
    /\ \E i \in DOMAIN response.body : response.body[i]["id"].str.oid > SeedSize

(* C10: under every interleaving of the handlers a stored product is never *)
(* removed and never changes (its identifier and created_at with it): the  *)
(* read handlers leave the collection as it is and create_product only     *)
(* appends one record.                                                     *)
C10_AppendOnly ==
    [][/\ \A i \in DOMAIN products :
             i \in DOMAIN products' /\ products'[i] = products[i]
       /\ products' # products =>
             /\ response'.handler = "create_product"
             /\ Len(products') = Len(products) + 1]_vars

C10_Witness ==
    /\ IsFeatured /\ response.status = 200
    /\ Len(response.reads) = 2
    /\ Len(response.reads[2]) > Len(response.reads[1])
    /\ Len(response.reads[1]) > 0
    /\ products = response.reads[2]

====
